---- MODULE Spec2Model ----
(***************************************************************************)
(* Word Vector API (oliversalt/railwayProject).                            *)
(*                                                                         *)
(* Two FastAPI applications live in the repository:                        *)
(*   src/word-embeddings-app/main.py  staged startup, request validation,  *)
(*                                    slowapi rate limiting  (Spec, SpecRate)*)
(*   src/main.py                      the plain application   (SpecRoot)   *)
(*                                                                         *)
(* The lifespan coroutine contains no await before its yield, and the ASGI *)
(* server opens its listening socket only after the lifespan startup has   *)
(* completed, so the startup steps never interleave with a handler.  A     *)
(* handler contains no await either, so one request is one atomic step.    *)
(***************************************************************************)
EXTENDS Integers, Sequences, FiniteSets, TLC

VARIABLES
    pc,                \* position of the lifespan coroutine
    process,           \* "running" or "terminated"
    listening,         \* the server accepts connections
    model_loaded,      \* app.state.model_loaded
    loading_status,    \* app.state.loading_status
    loading_progress,  \* app.state.loading_progress
    model,             \* app.state.model (src/main.py: the global model)
    trail,             \* the values loading_status has been given, in order
    loads,             \* calls of api.load so far
    storage,           \* the limiter's in-memory hit counters
    admitted,          \* per client and route: requests that reached the
                       \* handler in the current window of the route
    nreq,              \* requests handled so far
    req,               \* the last request
    resp               \* the answer to it

vars == <<pc, process, listening, model_loaded, loading_status,
          loading_progress, model, trail, loads, storage, admitted, nreq, req, resp>>

appState == <<model_loaded, loading_status, loading_progress, model, trail, loads>>

----------------------------------------------------------------------------
(* Bounds of the environment *)

\* requests handled per run
MaxRequests == 1

Clients == {"c1", "c2"}

----------------------------------------------------------------------------
(* Words: sequences of one-character strings *)

UpperLetters == {"K", "Q"}
LowerLetters == {"k", "q", "m", "z", "a"}
Hyphen == "-"

MinWordLen == 1
MaxWordLen == 32

wk == <<"k">>
wK == <<"K">>
wq == <<"q">>
wm == <<"m">>
wz == <<"z", "-", "z">>
wDigit == <<"k", "1">>
wEmpty == <<>>
wLong == [i \in 1..(MaxWordLen + 1) |-> "a"]

Words == {wk, wK, wq, wz, wDigit, wEmpty, wLong}

\* str.lower() on one character
LowerChar(ch) ==
    CASE ch = "K" -> "k"
      [] ch = "Q" -> "q"
      [] OTHER -> ch

\* str.lower()
Lower(w) == [i \in DOMAIN w |-> LowerChar(w[i])]

\* Query(min_length=1, max_length=32, pattern=r"^[A-Za-z-]+$")
WordValid(w) ==
    /\ Len(w) >= MinWordLen
    /\ Len(w) <= MaxWordLen
    /\ \A i \in DOMAIN w : w[i] \in UpperLetters \cup LowerLetters \cup {Hyphen}

MinTopn == 1
MaxTopn == 20
AnalogyDefaultTopn == 1
NeighborsDefaultTopn == 10
\* A topn parameter is <<n>>; the query string that carries none is <<>>.
Absent == <<>>

\* Query(default=..., ge=1, le=20)
TopnValid(t) == t = Absent \/ (t[1] >= MinTopn /\ t[1] <= MaxTopn)

TopnOr(t, default) == IF t = Absent THEN default ELSE t[1]

----------------------------------------------------------------------------
(* VectorModel: the gensim KeyedVectors object returned by api.load.       *)
(* keys is index_to_key (the iteration order of key_to_index); sim is the  *)
(* table of cosine similarities between the stored vectors, scaled to      *)
(* integers (10 stands for 1.0).                                           *)

None == [ref |-> "None", keys |-> <<>>, sim |-> <<>>]

SimTable(n, s12, s13, s23) ==
    [p \in (1..n) \X (1..n) |->
        IF p[1] = p[2] THEN 10
        ELSE IF {p[1], p[2]} = {1, 2} THEN s12
        ELSE IF {p[1], p[2]} = {1, 3} THEN s13
        ELSE s23]

KeyedVectors(ks, s12, s13, s23) ==
    [ref |-> "KeyedVectors", keys |-> ks, sim |-> SimTable(Len(ks), s12, s13, s23)]

\* the vector tables api.load may return
Models ==
    { KeyedVectors(<<wk>>, 0, 0, 0),
      KeyedVectors(<<wk, wq, wm>>, 9, 5, 7),
      KeyedVectors(<<wq, wk, wm>>, 7, 3, 7) }

\* the messages an exception raised inside the try block may carry
ErrorMessages == {"download failed"}

\* w in model.key_to_index
InVocab(m, w) == \E i \in DOMAIN m.keys : m.keys[i] = w

\* model.key_to_index[w]
KeyIndex(m, w) == CHOOSE i \in DOMAIN m.keys : m.keys[i] = w

\* len(model.key_to_index)
VocabSize(m) == Len(m.keys)

\* model.similarity(w1, w2)
similarity(m, w1, w2) == m.sim[<<KeyIndex(m, w1), KeyIndex(m, w2)>>]

RECURSIVE SumSim(_, _, _)
SumSim(m, ws, i) ==
    IF ws = <<>> THEN 0
    ELSE m.sim[<<KeyIndex(m, Head(ws)), i>>] + SumSim(m, Tail(ws), i)

\* dot product of every stored vector with the (unnormalised) mean of the
\* positive vectors minus the negative ones
Dists(m, positive, negative) ==
    [i \in DOMAIN m.keys |-> SumSim(m, positive, i) - SumSim(m, negative, i)]

\* matutils.argsort(dists, reverse=True): indices by descending score
RECURSIVE ArgsortDesc(_, _)
ArgsortDesc(dists, S) ==
    IF S = {} THEN <<>>
    ELSE LET best == CHOOSE i \in S :
                        \A j \in S : \/ dists[i] > dists[j]
                                     \/ (dists[i] = dists[j] /\ i <= j)
         IN  <<best>> \o ArgsortDesc(dists, S \ {best})

Take(s, n) == SubSeq(s, 1, IF n < Len(s) THEN n ELSE Len(s))

\* model.most_similar(positive=..., negative=..., topn=...)
most_similar(m, positive, negative, topn) ==
    IF topn < 1 THEN <<>>
    ELSE
    LET all_keys == {KeyIndex(m, positive[i]) : i \in DOMAIN positive}
                    \cup {KeyIndex(m, negative[i]) : i \in DOMAIN negative}
        dists == Dists(m, positive, negative)
        best == Take(ArgsortDesc(dists, DOMAIN m.keys), topn + Cardinality(all_keys))
        kept == SelectSeq(best, LAMBDA i : i \notin all_keys)
        result == [k \in DOMAIN kept |-> <<m.keys[kept[k]], dists[kept[k]]>>]
    IN  Take(result, topn)

----------------------------------------------------------------------------
(* Requests and responses *)

Endpoints == {"/", "/health", "/loading-status", "/similarity", "/analogy",
              "/neighbors", "/vocabulary"}

\* the routes decorated with @limiter.limit("30/minute")
LimitedEndpoints == {"/similarity", "/analogy", "/neighbors"}

Request(c, ep, ws, t) == [topn |-> t, ep |-> ep, client |-> c, words |-> ws]

NoRequest == Request("", "", <<>>, Absent)

NoDetail == [text |-> "", word |-> <<>>, of |-> 0]

\* What a handler (or a pipeline stage before it) produced.
\*   exc      the exception that left the code, "" when it returned
\*   stage    the pipeline stage that produced the answer
\*   deref    an attribute of app.state.model was read
\*   lookups  the words tested against key_to_index, in order
\*   ops      the model operations invoked, in order
Result(exc, status, detail, body, stage, deref, lookups, ops) ==
    [exc |-> exc, status |-> status, detail |-> detail, body |-> body,
     stage |-> stage, deref |-> deref, lookups |-> lookups, ops |-> ops]

NoBody == [kind |-> "none"]

NoResponse == Result("", 0, NoDetail, NoBody, "none", FALSE, <<>>, <<>>)

\* the TCP connection was not accepted: nothing is listening
Refused == Result("", 0, NoDetail, NoBody, "refused", FALSE, <<>>, <<>>)

\* raise HTTPException(status_code=..., detail=...)
HTTPException(status, text, word, deref, lookups) ==
    Result("HTTPException", status, [text |-> text, word |-> word, of |-> 0],
           NoBody, "handler", deref, lookups, <<>>)

\* app.state.model.<attr> when app.state.model is None
AttributeError(lookups) ==
    Result("AttributeError", 0,
           [text |-> "'NoneType' object has no attribute", word |-> <<>>, of |-> 0],
           NoBody, "handler", TRUE, lookups, <<>>)

Return(body, deref, lookups, ops) ==
    Result("", 200, NoDetail, body, "handler", deref, lookups, ops)

WordNotFound(word, lookups) ==
    HTTPException(404, "Word '<word>' not found in vocabulary", word, TRUE, lookups)

\* except Exception as e: raise HTTPException(status_code=500, detail=str(e))
\* HTTPException derives from Exception, so the clause also catches the
\* HTTPException(404) raised inside the try block; str(e) of an HTTPException
\* is "<status_code>: <detail>".
ExceptException(r) ==
    IF r.exc = "" THEN r
    ELSE [r EXCEPT !.exc = "HTTPException",
                   !.status = 500,
                   !.detail = [text |-> r.detail.text, word |-> r.detail.word,
                               of |-> r.status]]

\* the check with "and" in place of "or"
ModelNotLoaded_mut(loaded, mdl) == ~loaded /\ mdl.ref = "deleted" /\ mdl.ref = "None"

\* not getattr(app.state, 'model_loaded', False) or not hasattr(app.state, 'model')
\*     or app.state.model is None
ModelNotLoaded(loaded, mdl) == ~loaded \/ mdl.ref # "KeyedVectors"

ModelNotLoadedError == HTTPException(503, "Model not loaded", <<>>, FALSE, <<>>)

----------------------------------------------------------------------------
(* Endpoint handlers of src/word-embeddings-app/main.py.  The bodies of    *)
(* the try blocks are the same in src/main.py.                             *)

\* the list built back to front
ResultList_mut(results) ==
    [i \in DOMAIN results |->
        [similarity |-> results[Len(results) + 1 - i][2],
         word |-> results[Len(results) + 1 - i][1]]]

\* [{"word": word, "similarity": float(score)} for word, score in results]
ResultList(results) ==
    [i \in DOMAIN results |-> [similarity |-> results[i][2], word |-> results[i][1]]]

similarity_try(mdl, word1, word2) ==
    IF mdl.ref # "KeyedVectors" THEN AttributeError(<<>>)
    ELSE IF ~InVocab(mdl, Lower(word1))
         THEN WordNotFound(word1, <<Lower(word1)>>)
    ELSE IF ~InVocab(mdl, Lower(word2))
         THEN WordNotFound(word2, <<Lower(word1), Lower(word2)>>)
    ELSE Return([similarity |-> similarity(mdl, Lower(word1), Lower(word2)),
                 word1 |-> Lower(word1), word2 |-> Lower(word2)],
                TRUE, <<Lower(word1), Lower(word2)>>, <<"similarity">>)

get_similarity(loaded, mdl, word1, word2) ==
    IF ModelNotLoaded(loaded, mdl) THEN ModelNotLoadedError
    ELSE ExceptException(similarity_try(mdl, word1, word2))

\* for word in words: if word not in key_to_index: raise ...
\* the index of the first word that is missing, 0 when none is
FirstMissing(mdl, words) ==
    IF \A i \in DOMAIN words : InVocab(mdl, words[i]) THEN 0
    ELSE CHOOSE i \in DOMAIN words :
            /\ ~InVocab(mdl, words[i])
            /\ \A j \in 1..(i - 1) : InVocab(mdl, words[j])

analogy_try(mdl, a, b, c, topn) ==
    IF mdl.ref # "KeyedVectors" THEN AttributeError(<<>>)
    ELSE LET words == <<Lower(a), Lower(b), Lower(c)>>
             miss == FirstMissing(mdl, words)
         IN  IF miss # 0
             THEN WordNotFound(words[miss], SubSeq(words, 1, miss))
             ELSE Return([results |-> ResultList(most_similar(mdl,
                                         <<Lower(a), Lower(c)>>, <<Lower(b)>>, topn)),
                          analogy |-> <<a, b, c>>],
                         TRUE, words, <<"most_similar">>)

solve_analogy(loaded, mdl, a, b, c, topn) ==
    IF ModelNotLoaded(loaded, mdl) THEN ModelNotLoadedError
    ELSE ExceptException(analogy_try(mdl, a, b, c, topn))

neighbors_try(mdl, word, topn) ==
    IF mdl.ref # "KeyedVectors" THEN AttributeError(<<>>)
    ELSE IF ~InVocab(mdl, Lower(word))
         THEN WordNotFound(word, <<Lower(word)>>)
    ELSE Return([word |-> Lower(word),
                 neighbors |-> ResultList(most_similar(mdl, <<Lower(word)>>, <<>>, topn))],
                TRUE, <<Lower(word)>>, <<"most_similar">>)

get_neighbors(loaded, mdl, word, topn) ==
    IF ModelNotLoaded(loaded, mdl) THEN ModelNotLoadedError
    ELSE ExceptException(neighbors_try(mdl, word, topn))

\* vector_size of 'glove-wiki-gigaword-50'
VectorSize == 50
SampleSize == 20

vocabulary_body(mdl) ==
    IF mdl.ref # "KeyedVectors" THEN AttributeError(<<>>)
    ELSE Return([vocabulary_size |-> VocabSize(mdl),
                 vector_dimensions |-> VectorSize,
                 sample_words |-> Take(mdl.keys, SampleSize)],
                TRUE, <<>>, <<>>)

get_vocabulary_info(loaded, mdl) ==
    IF ModelNotLoaded(loaded, mdl) THEN ModelNotLoadedError
    ELSE vocabulary_body(mdl)

\* the vocabulary size read without the guard
health_check_mut(loaded, mdl) ==
    IF mdl.ref # "KeyedVectors" THEN AttributeError(<<>>)
    ELSE Return([model_loaded |-> loaded,
                 status |-> IF loaded THEN "ready" ELSE "initializing",
                 vocabulary_size |-> VocabSize(mdl),
                 service |-> "Word Vector API"],
                TRUE, <<>>, <<>>)

health_check(loaded, mdl) ==
    LET touch == loaded /\ mdl.ref = "KeyedVectors"
    IN  Return([model_loaded |-> loaded,
                status |-> IF loaded THEN "ready" ELSE "initializing",
                vocabulary_size |-> IF touch THEN VocabSize(mdl) ELSE 0,
                service |-> "Word Vector API"],
               touch, <<>>, <<>>)

loading_status_endpoint(loaded, status, progress, mdl) ==
    LET touch == loaded /\ mdl.ref = "KeyedVectors" /\ VocabSize(mdl) > 0
    IN  Return([model_loaded |-> loaded,
                loading_status |-> status,
                loading_progress |-> progress,
                vocabulary_size |-> IF touch THEN VocabSize(mdl) ELSE 0],
               touch, <<>>, <<>>)

root ==
    Return([status |-> "running", name |-> "Word Vector API", version |-> "1.0"],
           FALSE, <<>>, <<>>)

\* the parameters as the handler receives them
Handle(loaded, status, progress, mdl, r) ==
    CASE r.ep = "/" -> root
      [] r.ep = "/health" -> health_check(loaded, mdl)
      [] r.ep = "/loading-status" -> loading_status_endpoint(loaded, status, progress, mdl)
      [] r.ep = "/similarity" -> get_similarity(loaded, mdl, r.words[1], r.words[2])
      [] r.ep = "/analogy" ->
            solve_analogy(loaded, mdl, r.words[1], r.words[2], r.words[3],
                          TopnOr(r.topn, AnalogyDefaultTopn))
      [] r.ep = "/neighbors" ->
            get_neighbors(loaded, mdl, r.words[1], TopnOr(r.topn, NeighborsDefaultTopn))
      [] r.ep = "/vocabulary" -> get_vocabulary_info(loaded, mdl)

\* What the framework sends for the handler's outcome: an HTTPException
\* becomes a response with its status code, any other exception a 500.
Respond(r) ==
    IF r.exc = "" \/ r.exc = "HTTPException" THEN [r EXCEPT !.exc = ""]
    ELSE [r EXCEPT !.exc = "", !.status = 500,
                   !.detail = [text |-> "Internal Server Error", word |-> <<>>, of |-> 0]]

----------------------------------------------------------------------------
(* Request validation and rate limiting of src/word-embeddings-app/main.py *)

\* FastAPI validates the declared Query(...) parameters before it calls
\* the endpoint function
ParamsValid(r) ==
    CASE r.ep = "/similarity" -> WordValid(r.words[1]) /\ WordValid(r.words[2])
      [] r.ep = "/analogy" ->
            /\ \A i \in 1..3 : WordValid(r.words[i])
            /\ TopnValid(r.topn)
      [] r.ep = "/neighbors" -> WordValid(r.words[1]) /\ TopnValid(r.topn)
      [] OTHER -> TRUE

ValidationError ==
    Result("", 422, [text |-> "validation error", word |-> <<>>, of |-> 0],
           NoBody, "validation", FALSE, <<>>, <<>>)

\* Limiter(key_func=get_remote_address, default_limits=["60/minute"])
DefaultLimit == 60
\* @limiter.limit("30/minute")
RouteLimit == 30

LimitKinds == {"default", "route"}

\* One counter per (client address, route path, limit): the limits have no
\* scope of their own, so the storage key carries the path of the request.
StorageKeys == Clients \X Endpoints \X LimitKinds

LimitOf(kind) == IF kind = "default" THEN DefaultLimit ELSE RouteLimit

\* the comparison off by one
Hit_mut(st, key, limit) ==
    [st |-> [st EXCEPT ![key] = IF @ > limit THEN @ ELSE @ + 1],
     ok |-> st[key] <= limit]

\* limiter.hit(limit, key, scope): the counter of the window is incremented
\* and the request passes when the counter does not exceed the limit.
\* Counts above limit + 1 are not told apart.
Hit(st, key, limit) ==
    [st |-> [st EXCEPT ![key] = IF @ > limit THEN @ ELSE @ + 1],
     ok |-> st[key] + 1 <= limit]

\* _rate_limit_handler
TooManyRequests(stage) ==
    Result("", 429, [text |-> "Too Many Requests", word |-> <<>>, of |-> 0],
           NoBody, stage, FALSE, <<>>, <<>>)

\* One request through SlowAPIMiddleware (default limit), FastAPI's
\* parameter validation, the @limiter.limit wrapper of the endpoint function
\* (route limit) and the handler.
Dispatch(st, loaded, status, progress, mdl, r) ==
    LET h1 == Hit(st, <<r.client, r.ep, "default">>, DefaultLimit)
        h2 == Hit(h1.st, <<r.client, r.ep, "route">>, RouteLimit)
        answer == Respond(Handle(loaded, status, progress, mdl, r))
    IN  IF ~h1.ok THEN [resp |-> TooManyRequests("middleware"), st |-> h1.st]
        ELSE IF ~ParamsValid(r) THEN [resp |-> ValidationError, st |-> h1.st]
        ELSE IF r.ep \in LimitedEndpoints
             THEN IF ~h2.ok THEN [resp |-> TooManyRequests("decorator"), st |-> h2.st]
                  ELSE [resp |-> answer, st |-> h2.st]
        ELSE [resp |-> answer, st |-> h1.st]

----------------------------------------------------------------------------
(* Endpoint handlers of src/main.py: no limiter, no constraints on the     *)
(* parameters, the model in a module global.                               *)

\* if not model
RootModelMissing(mdl) == mdl.ref # "KeyedVectors" \/ VocabSize(mdl) = 0

RootEndpoints == {"/", "/similarity", "/analogy", "/neighbors", "/vocabulary"}

root_root(mdl) ==
    Return([model_loaded |-> mdl.ref # "None",
            vocabulary_size |-> IF RootModelMissing(mdl) THEN 0 ELSE VocabSize(mdl),
            message |-> "Word Vector API is running"],
           ~RootModelMissing(mdl), <<>>, <<>>)

RootHandle(mdl, r) ==
    CASE r.ep = "/" -> root_root(mdl)
      [] r.ep = "/similarity" ->
            IF RootModelMissing(mdl) THEN ModelNotLoadedError
            ELSE ExceptException(similarity_try(mdl, r.words[1], r.words[2]))
      [] r.ep = "/analogy" ->
            IF RootModelMissing(mdl) THEN ModelNotLoadedError
            ELSE ExceptException(analogy_try(mdl, r.words[1], r.words[2], r.words[3],
                                             TopnOr(r.topn, AnalogyDefaultTopn)))
      [] r.ep = "/neighbors" ->
            IF RootModelMissing(mdl) THEN ModelNotLoadedError
            ELSE ExceptException(neighbors_try(mdl, r.words[1],
                                               TopnOr(r.topn, NeighborsDefaultTopn)))
      [] r.ep = "/vocabulary" ->
            IF RootModelMissing(mdl) THEN ModelNotLoadedError
            ELSE vocabulary_body(mdl)

RootDispatch(mdl, r) == Respond(RootHandle(mdl, r))

----------------------------------------------------------------------------
(* The state machine *)

Init ==
    /\ pc = "boot"
    /\ process = "running"
    /\ listening = FALSE
    /\ model_loaded = FALSE
    /\ loading_status = "Unknown"
    /\ loading_progress = 0
    /\ model = None
    /\ trail = <<>>
    /\ loads = 0
    /\ storage = [k \in StorageKeys |-> 0]
    /\ admitted = [k \in Clients \X Endpoints |-> 0]
    /\ nreq = 0
    /\ req = NoRequest
    /\ resp = NoResponse

SetStatus(status, progress) ==
    /\ loading_status' = status
    /\ loading_progress' = progress
    /\ trail' = Append(trail, status)

\* lifespan, lines 35-39
LifespanInit ==
    /\ pc = "boot"
    /\ model_loaded' = FALSE
    /\ SetStatus("Starting up...", 0)
    /\ model' = None
    /\ pc' = "starting"
    /\ UNCHANGED <<process, listening, loads, storage, admitted, nreq, req, resp>>

\* the status update left out
LifespanDownloading_mut ==
    /\ pc = "starting"
    /\ pc' = "downloading"
    /\ UNCHANGED <<process, listening, appState, storage, admitted, nreq, req, resp>>

\* lines 42-44
LifespanDownloading ==
    /\ pc = "starting"
    /\ SetStatus("Downloading GloVe model...", 25)
    /\ pc' = "downloading"
    /\ UNCHANGED <<process, listening, model_loaded, model, loads, storage, admitted, nreq, req, resp>>

\* lines 49-50
LifespanLoading ==
    /\ pc = "downloading"
    /\ SetStatus("Loading model into memory...", 50)
    /\ pc' = "loading"
    /\ UNCHANGED <<process, listening, model_loaded, model, loads, storage, admitted, nreq, req, resp>>

\* line 54: api.load returns
LifespanLoad ==
    /\ pc = "loading"
    /\ \E m \in Models : model' = m
    /\ loads' = loads + 1
    /\ pc' = "loaded"
    /\ UNCHANGED <<process, listening, model_loaded, loading_status, loading_progress,
                   trail, storage, admitted, nreq, req, resp>>

\* the flag set after the try statement instead of inside it
ExceptClause_mut(msg) ==
    /\ model' = None
    /\ model_loaded' = TRUE
    /\ SetStatus("Error: " \o msg, 0)
    /\ pc' = "yield"

\* lines 74-82: the except clause
ExceptClause(msg) ==
    /\ model' = None
    /\ model_loaded' = FALSE
    /\ SetStatus("Error: " \o msg, 0)
    /\ pc' = "yield"

\* line 54: api.load raises
LifespanLoadFails ==
    /\ pc = "loading"
    /\ loads' = loads + 1
    /\ \E msg \in ErrorMessages : ExceptClause(msg)
    /\ UNCHANGED <<process, listening, storage, admitted, nreq, req, resp>>

\* lines 57-58
LifespanOptimizing ==
    /\ pc = "loaded"
    /\ SetStatus("Optimizing memory usage...", 75)
    /\ pc' = "optimizing"
    /\ UNCHANGED <<process, listening, model_loaded, model, loads, storage, admitted, nreq, req, resp>>

\* model_loaded left unset
LifespanReady_mut ==
    /\ pc = "optimizing"
    /\ SetStatus("Ready!", 100)
    /\ pc' = "yield"
    /\ UNCHANGED <<process, listening, model_loaded, model, loads, storage, admitted,
                   nreq, req, resp>>

\* lines 60-72
LifespanReady ==
    /\ pc = "optimizing"
    /\ model_loaded' = TRUE
    /\ SetStatus("Ready!", 100)
    /\ pc' = "yield"
    /\ UNCHANGED <<process, listening, model, loads, storage, admitted, nreq, req, resp>>

\* lines 60-67: a statement after the load raises (gc.collect, print)
LifespanOptimizeFails ==
    /\ pc = "optimizing"
    /\ \E msg \in ErrorMessages : ExceptClause(msg)
    /\ UNCHANGED <<process, listening, loads, storage, admitted, nreq, req, resp>>

\* line 84: startup is complete, the server starts to listen
LifespanYield ==
    /\ pc = "yield"
    /\ listening' = TRUE
    /\ pc' = "serving"
    /\ UNCHANGED <<process, appState, storage, admitted, nreq, req, resp>>

\* lines 86-90
LifespanShutdown ==
    /\ pc = "serving"
    /\ listening' = FALSE
    /\ model' = IF model.ref = "KeyedVectors" /\ VocabSize(model) > 0
                THEN [model EXCEPT !.ref = "deleted"] ELSE model
    /\ pc' = "done"
    /\ UNCHANGED <<process, model_loaded, loading_status, loading_progress, trail,
                   loads, storage, admitted, nreq, req, resp>>

\* a client connects while nothing is listening
ConnectRefused(c, ep) ==
    /\ process = "running"
    /\ ~listening
    /\ pc \notin {"boot", "done"}
    /\ req' = Request(c, ep, <<>>, Absent)
    /\ resp' = Refused
    /\ UNCHANGED <<pc, process, listening, appState, storage, admitted, nreq>>

\* one request served by src/word-embeddings-app/main.py
Serve(r) ==
    /\ listening
    /\ nreq < MaxRequests
    /\ LET d == Dispatch(storage, model_loaded, loading_status, loading_progress, model, r)
       IN  /\ storage' = d.st
           /\ resp' = d.resp
           /\ admitted' = IF d.resp.stage = "handler"
                          THEN [admitted EXCEPT ![<<r.client, r.ep>>] = @ + 1]
                          ELSE admitted
    /\ req' = r
    /\ nreq' = nreq + 1
    /\ UNCHANGED <<pc, process, listening, appState>>

\* the words and topn values the clients send
Topns == {Absent, <<0>>, <<1>>, <<21>>}
SimilarityArgs ==
    {<<w, wq>> : w \in Words}
    \cup {<<wk, w>> : w \in {wk, wz, wDigit}}
    \cup {<<wq, wk>>}
AnalogyArgs ==
    {<<wk, wq, wm>>}
    \cup {<<w, wq, wm>> : w \in {wK, wz, wDigit}}
    \cup {<<wk, w, wm>> : w \in {wz, wLong}}
    \cup {<<wk, wq, w>> : w \in {wz, wEmpty}}

Root(c) == Serve(Request(c, "/", <<>>, Absent))

HealthCheck(c) == Serve(Request(c, "/health", <<>>, Absent))

LoadingStatus(c) == Serve(Request(c, "/loading-status", <<>>, Absent))

GetVocabularyInfo(c) == Serve(Request(c, "/vocabulary", <<>>, Absent))

GetSimilarity(c) ==
    \E args \in SimilarityArgs :
        Serve(Request(c, "/similarity", args, Absent))

SolveAnalogy(c) ==
    \E args \in AnalogyArgs, topn \in Topns :
        /\ (topn # Absent => args = <<wk, wq, wm>>)
        /\ Serve(Request(c, "/analogy", args, topn))

GetNeighbors(c) ==
    \E word \in Words, topn \in Topns :
        /\ (topn # Absent => word = wk)
        /\ Serve(Request(c, "/neighbors", <<word>>, topn))

\* the limit that decides whether a request to ep reaches the handler last
BindingKind(ep) == IF ep \in LimitedEndpoints THEN "route" ELSE "default"

\* the window of a counter ends: the storage drops the key
Expire(key) ==
    /\ listening
    /\ storage[key] > 0
    /\ storage' = [storage EXCEPT ![key] = 0]
    /\ admitted' = IF key[3] = BindingKind(key[2])
                   THEN [admitted EXCEPT ![<<key[1], key[2]>>] = 0]
                   ELSE admitted
    /\ UNCHANGED <<pc, process, listening, appState, nreq, req, resp>>

Startup ==
    \/ LifespanInit
    \/ LifespanDownloading
    \/ LifespanLoading
    \/ LifespanLoad
    \/ LifespanLoadFails
    \/ LifespanOptimizing
    \/ LifespanReady
    \/ LifespanOptimizeFails
    \/ LifespanYield

Requests ==
    \E c \in Clients :
        \/ Root(c)
        \/ HealthCheck(c)
        \/ LoadingStatus(c)
        \/ GetVocabularyInfo(c)
        \/ GetSimilarity(c)
        \/ SolveAnalogy(c)
        \/ GetNeighbors(c)

Next ==
    \/ Startup
    \/ Requests
    \/ \E key \in StorageKeys : Expire(key)
    \/ \E c \in Clients, ep \in Endpoints : ConnectRefused(c, ep)
    \/ LifespanShutdown

Spec == Init /\ [][Next]_vars

----------------------------------------------------------------------------
(* The service of src/word-embeddings-app/main.py under load: startup is   *)
(* over and one client has already sent requests to one route within the   *)
(* current minute.                                                         *)

StartupTrail ==
    <<"Starting up...", "Downloading GloVe model...", "Loading model into memory...">>

\* the states in which lifespan reaches its yield
Started(m, msg) ==
    \/ /\ model = m
       /\ model_loaded = TRUE
       /\ loading_status = "Ready!"
       /\ loading_progress = 100
       /\ trail = StartupTrail \o <<"Optimizing memory usage...", "Ready!">>
    \/ /\ model = None
       /\ model_loaded = FALSE
       /\ loading_status = "Error: " \o msg
       /\ loading_progress = 0
       /\ trail = Append(StartupTrail, "Error: " \o msg)

\* the routes the earlier requests went to
HotEndpoints == {"/similarity", "/health"}

\* hit counters <<default, route>> that earlier requests of the minute left
PriorHits(ep) ==
    IF ep \in LimitedEndpoints
    THEN {h \in {RouteLimit - 1, RouteLimit, DefaultLimit - 1, DefaultLimit}
                    \X {RouteLimit - 1, RouteLimit} : h[1] >= h[2]}
    ELSE {<<d, 0>> : d \in {DefaultLimit - 1, DefaultLimit}}

InitRate ==
    /\ pc = "serving"
    /\ process = "running"
    /\ listening = TRUE
    /\ loads = 1
    /\ \E m \in Models, msg \in ErrorMessages : Started(m, msg)
    /\ \E ep \in HotEndpoints : \E h \in PriorHits(ep) :
          /\ storage = [k \in StorageKeys |->
                           IF k = <<"c1", ep, "default">> THEN h[1]
                           ELSE IF k = <<"c1", ep, "route">> THEN h[2]
                           ELSE 0]
          /\ admitted = [k \in Clients \X Endpoints |->
                           IF k = <<"c1", ep>>
                           THEN (IF ep \in LimitedEndpoints THEN h[2] ELSE h[1])
                           ELSE 0]
    /\ nreq = 0
    /\ req = NoRequest
    /\ resp = NoResponse

NextRate ==
    \/ Requests
    \/ \E key \in StorageKeys : Expire(key)

SpecRate == InitRate /\ [][NextRate]_vars

----------------------------------------------------------------------------
(* src/main.py *)

\* lifespan, lines 26-30 and 35: api.load returns
RootLifespanLoad ==
    /\ pc = "boot"
    /\ \E m \in Models : model' = m
    /\ loads' = loads + 1
    /\ listening' = TRUE
    /\ pc' = "serving"
    /\ UNCHANGED <<process, model_loaded, loading_status, loading_progress, trail,
                   storage, admitted, nreq, req, resp>>

\* lines 31-33: api.load raises and lifespan re-raises; the server reports
\* the failed startup and exits
RootLifespanLoadFails ==
    /\ pc = "boot"
    /\ loads' = loads + 1
    /\ process' = "terminated"
    /\ pc' = "crashed"
    /\ UNCHANGED <<listening, model_loaded, loading_status, loading_progress, model,
                   trail, storage, admitted, nreq, req, resp>>

\* lines 37-38
RootLifespanShutdown ==
    /\ pc = "serving"
    /\ listening' = FALSE
    /\ pc' = "done"
    /\ UNCHANGED <<process, appState, storage, admitted, nreq, req, resp>>

RootServe(r) ==
    /\ listening
    /\ nreq < MaxRequests
    /\ resp' = RootDispatch(model, r)
    /\ req' = r
    /\ nreq' = nreq + 1
    /\ UNCHANGED <<pc, process, listening, appState, storage, admitted>>

RootRoot(c) == RootServe(Request(c, "/", <<>>, Absent))

RootGetVocabularyInfo(c) == RootServe(Request(c, "/vocabulary", <<>>, Absent))

RootGetSimilarity(c) ==
    \E args \in SimilarityArgs :
        RootServe(Request(c, "/similarity", args, Absent))

RootSolveAnalogy(c) ==
    \E args \in AnalogyArgs, topn \in Topns :
        /\ (topn # Absent => args = <<wk, wq, wm>>)
        /\ RootServe(Request(c, "/analogy", args, topn))

RootGetNeighbors(c) ==
    \E word \in Words, topn \in Topns :
        /\ (topn # Absent => word = wk)
        /\ RootServe(Request(c, "/neighbors", <<word>>, topn))

NextRoot ==
    \/ RootLifespanLoad
    \/ RootLifespanLoadFails
    \/ RootLifespanShutdown
    \/ \E c \in Clients :
        \/ RootRoot(c)
        \/ RootGetVocabularyInfo(c)
        \/ RootGetSimilarity(c)
        \/ RootSolveAnalogy(c)
        \/ RootGetNeighbors(c)

SpecRoot == Init /\ [][NextRoot]_vars

----------------------------------------------------------------------------
(* Properties *)

ModelEndpoints == {"/similarity", "/analogy", "/neighbors", "/vocabulary"}

\* the last request got past the rate limiter and the parameter validation
Handled == nreq > 0 /\ resp.status \notin {0, 422, 429}

\* the positions of the word parameters whose lowercased value is not a key
MissingWords(r) == {i \in DOMAIN r.words : ~InVocab(model, Lower(r.words[i]))}

IsErrorStatus(status) == status \in {"Error: " \o msg : msg \in ErrorMessages}

\* C1: with the model loaded, a validated request to /similarity, /analogy
\* or /neighbors that names a word outside the vocabulary is answered 404
\* "Word '<word>' not found in vocabulary" and invokes no model operation.
C1_WordNotFoundIs404 ==
    (/\ Handled
     /\ req.ep \in LimitedEndpoints
     /\ model_loaded
     /\ MissingWords(req) # {})
    => /\ resp.status = 404
       /\ resp.detail.text = "Word '<word>' not found in vocabulary"
       /\ resp.ops = <<>>

\* C2: while model_loaded is false, a request to a model-requiring endpoint
\* that gets past rate limiting and validation is answered 503 "Model not
\* loaded" and never reads the model.
C2_NotLoadedIs503 ==
    (/\ Handled
     /\ req.ep \in ModelEndpoints
     /\ ~model_loaded)
    => /\ resp.status = 503
       /\ resp.detail.text = "Model not loaded"
       /\ ~resp.deref
       /\ resp.lookups = <<>>
       /\ resp.ops = <<>>

C2_Witness ==
    /\ ~model_loaded
    /\ req.ep = "/similarity"
    /\ resp.status = 503
    /\ ParamsValid(req)

LoadInProgress == pc \in {"starting", "downloading", "loading", "loaded", "optimizing"}

\* C3: a client that connects while the load is in progress is accepted and
\* answered: 503 from the model-requiring endpoints, "initializing" from
\* /health.
C3_ServesDuringLoad ==
    (LoadInProgress /\ req # NoRequest)
    => /\ resp.stage # "refused"
       /\ (req.ep \in ModelEndpoints => resp.status = 503)
       /\ (req.ep = "/health" => resp.body.status = "initializing")

\* api.load (or a later statement of the try block) has raised
LoadFailed == loads > 0 /\ model.ref = "None" /\ pc \notin {"loading", "loaded", "optimizing"}

\* C4: a failed load does not end the process: the failure is recorded in
\* the startup state, and the listener then answers: an error status from
\* the model-dependent endpoints, 200 from /health and /loading-status.
C4_LoadFailureNotFatal ==
    LoadFailed
    => /\ process = "running"
       /\ ~model_loaded
       /\ IsErrorStatus(loading_status)
       /\ (Handled /\ req.ep \in ModelEndpoints => resp.status >= 400)
       /\ (Handled /\ req.ep \in {"/health", "/loading-status"} => resp.status = 200)

\* the position of a status in the stage order
Stage(status) ==
    CASE status = "Unknown" -> 0
      [] status = "Starting up..." -> 1
      [] status = "Downloading GloVe model..." -> 2
      [] status = "Loading model into memory..." -> 3
      [] status = "Optimizing memory usage..." -> 4
      [] status = "Ready!" -> 5
      [] OTHER -> 6

\* C5: the status moves through starting, downloading, loading, optimizing,
\* ready one stage at a time, or jumps to the terminal error stage; it is
\* "Ready!" only after every earlier stage and a successful load.
C5_StageOrder ==
    /\ [][loading_status' # loading_status
            => /\ Stage(loading_status) < 5
               /\ \/ Stage(loading_status') = Stage(loading_status) + 1
                  \/ IsErrorStatus(loading_status')]_vars
    /\ [](loading_status = "Ready!"
            => /\ trail = StartupTrail \o <<"Optimizing memory usage...", "Ready!">>
               /\ loads = 1
               /\ model.ref # "None")

C5_Witness == loading_status = "Ready!" /\ pc = "serving"

\* C6: a request to /similarity, /analogy or /neighbors with a word that
\* fails ^[A-Za-z-]{1,32}$ or a topn outside 1..20 is rejected with a
\* 4xx status before any vocabulary lookup or model operation.
C6_ValidationBeforeLookup ==
    (/\ nreq > 0
     /\ req.ep \in LimitedEndpoints
     /\ ~ParamsValid(req))
    => /\ resp.status >= 400
       /\ resp.status < 500
       /\ resp.lookups = <<>>
       /\ resp.ops = <<>>
       /\ ~resp.deref

RECURSIVE SumAdmitted(_, _)
SumAdmitted(c, eps) ==
    IF eps = {} THEN 0
    ELSE LET ep == CHOOSE e \in eps : TRUE
         IN  admitted[<<c, ep>>] + SumAdmitted(c, eps \ {ep})

\* the last request was turned away by the limiter with the plain-text body
TurnedAway == resp.status = 429 /\ resp.detail.text = "Too Many Requests"

NeighborsAnswered == nreq > 0 /\ req.ep = "/neighbors" /\ resp.status = 200

NeighborsTopn == TopnOr(req.topn, NeighborsDefaultTopn)

Smaller(a, b) == IF a < b THEN a ELSE b

\* what the answer of /neighbors has in common under both readings of C8:
\* min(topn, vocabulary_size - 1) entries, none of them the queried word,
\* the model's result in the model's order
NeighborsShape(ns) ==
    LET word == Lower(req.words[1])
        result == most_similar(model, <<word>>, <<>>, NeighborsTopn)
    IN  /\ Len(ns) = Smaller(NeighborsTopn, VocabSize(model) - 1)
        /\ \A i \in DOMAIN ns : ns[i].word # word
        /\ Len(ns) = Len(result)
        /\ \A i \in DOMAIN ns : <<ns[i].word, ns[i].similarity>> = result[i]

\* C8 as stated: the neighbours come in strictly descending score order.
C8_StrictlyDescending ==
    NeighborsAnswered
    => LET ns == resp.body.neighbors
       IN  /\ NeighborsShape(ns)
           /\ \A i \in 1..(Len(ns) - 1) : ns[i].similarity > ns[i + 1].similarity

\* C8 as amended: for a loaded model and a word of the vocabulary,
\* /neighbors returns exactly min(topn, vocabulary_size - 1) entries in
\* descending (non-increasing) score order, never the queried word, and
\* the handler keeps the length and order of the model's result.
C8_Descending ==
    NeighborsAnswered
    => LET ns == resp.body.neighbors
       IN  /\ NeighborsShape(ns)
           /\ \A i \in 1..(Len(ns) - 1) : ns[i].similarity >= ns[i + 1].similarity

C8_Witness ==
    /\ NeighborsAnswered
    /\ Len(resp.body.neighbors) = 2
    /\ resp.body.neighbors[1].similarity > resp.body.neighbors[2].similarity

\* C9: the limiter comes first: a request of a client that has used up an
\* applicable limit is answered 429 whatever its parameters and whatever
\* model_loaded, and a request to a limited route uses up budget whether
\* or not it is valid.
C9_LimiterFirst ==
    [][nreq' > nreq =>
        LET r == req'
            dk == <<r.client, r.ep, "default">>
            rk == <<r.client, r.ep, "route">>
            over == \/ storage[dk] >= DefaultLimit
                    \/ r.ep \in LimitedEndpoints /\ storage[rk] >= RouteLimit
        IN  /\ over => resp'.status = 429
            /\ (~over /\ r.ep \in LimitedEndpoints)
                  => storage'[dk] = storage[dk] + 1]_vars

StartupOver == pc \in {"serving", "done"}

FailedAfterAssignment ==
    /\ ~model_loaded
    /\ \E i \in DOMAIN trail : trail[i] = "Optimizing memory usage..."

\* C11: no handler reads a partially constructed model: while the service
\* is serving, model_loaded implies that app.state.model is the object
\* api.load returned and that the startup sequence has run to its end; a
\* request answered while model_loaded is false (the load still in
\* progress, or given up after the model was assigned) reads no attribute
\* of the model, looks up no word and invokes no model operation.
C11_NoPartialModel ==
    /\ (listening /\ model_loaded)
          => /\ model.ref = "KeyedVectors"
             /\ loads = 1
             /\ ~LoadInProgress
             /\ loading_status = "Ready!"
    /\ (nreq > 0 /\ resp.stage = "handler" /\ (~model_loaded \/ LoadInProgress))
          => /\ ~resp.deref
             /\ resp.lookups = <<>>
             /\ resp.ops = <<>>
             /\ (req.ep \in ModelEndpoints => resp.status = 503)

C11_Witness ==
    /\ FailedAfterAssignment
    /\ listening
    /\ req.ep = "/neighbors"
    /\ resp.status = 503
    /\ ~resp.deref

StatusEndpoints == {"/", "/health", "/loading-status"}

\* the last request went to a status endpoint
StatusAsked == nreq > 0 /\ req.ep \in StatusEndpoints

\* what a status endpoint reports, once it runs: a projection of the startup
\* state that leaves the model alone while model_loaded is false
StatusProjection ==
    /\ resp.status = 200
    /\ (~model_loaded => ~resp.deref)
    /\ req.ep = "/health"
          => /\ resp.body.model_loaded = model_loaded
             /\ resp.body.status = (IF model_loaded THEN "ready" ELSE "initializing")
             /\ (~model_loaded => resp.body.vocabulary_size = 0)
    /\ req.ep = "/loading-status"
          => /\ resp.body.model_loaded = model_loaded
             /\ resp.body.loading_status = loading_status
             /\ resp.body.loading_progress = loading_progress
             /\ (~model_loaded => resp.body.vocabulary_size = 0)

\* C12 as stated: /, /health and /loading-status answer 200 in every state
\* in which the listener is serving, as read-only projections of the
\* startup state that never read the model while model_loaded is false.
C12_StatusAlways200 == StatusAsked => StatusProjection

\* C12 as amended: /, /health and /loading-status answer 200 to every
\* request the rate limiter lets through (they fall under the default
\* limit of 60 per minute, client and route, beyond which the answer is
\* 429), in every startup state in which the listener is serving; they
\* change nothing of the startup state and never read the model while
\* model_loaded is false; /health reports "ready" exactly when model_loaded
\* is true and "initializing" otherwise, and vocabulary_size is 0 whenever
\* model_loaded is false.
C12_StatusProjection ==
    /\ []((StatusAsked /\ ~TurnedAway) => StatusProjection)
    /\ []((StatusAsked /\ TurnedAway) => resp.stage = "middleware")
    /\ [][(nreq' > nreq /\ req'.ep \in StatusEndpoints) => UNCHANGED appState]_vars

C12_Witness ==
    /\ ~model_loaded
    /\ req.ep = "/health"
    /\ resp.status = 200
    /\ resp.body.status = "initializing"
    /\ resp.body.vocabulary_size = 0

====
